---------------------------- MODULE Spec2Model ----------------------------
(***************************************************************************)
(* lighttpd2: the HTTP header collection (src/src/http_headers.c) and the  *)
(* request validation pipeline (src/src/request.c).                        *)
(*                                                                         *)
(* A C string is a sequence of one-character strings.  A header entry is   *)
(* the record [keylen, data] of http_header, data holding "key: value".    *)
(* A GList cursor into a collection is an index into its entries, 0 being  *)
(* NULL.                                                                   *)
(***************************************************************************)
EXTENDS Integers, Sequences, FiniteSets, TLC

VARIABLES
    req,           \* con->request
    con,           \* the fields of the connection the validator writes
    errno,         \* errno of the worker thread
    pc,            \* where the connection is in processing the current request
    direct_calls,  \* calls of connection_handle_direct in the last validation
    direct_seen,   \* the state connection_handle_direct was last called in
    checks,        \* the checks the last validation entered, in order
    null_read,     \* whether a validation on this connection read through NULL
    nreq,          \* requests started on the connection
    client,        \* the header lines the peer of this connection sends
    hdrs,          \* a header collection used on its own
    call,          \* the last call made on hdrs: its arguments and result
    hpc,           \* whether the process using hdrs is still sound
    heap,          \* the collections allocated so far, by address
    th,            \* per thread: the collection it holds and where it is in a call
    assert_failed, \* whether an assert of http_headers.c has failed
    hdr_addr,      \* the address of the collection con->request.headers points to
    retained       \* the collections the request has left to their other holders

\* the variables of a connection
rvars == <<req, con, errno, pc, direct_calls, direct_seen, checks, null_read, nreq>>

\* the variables of a collection used on its own
hvars == <<hdrs, call, hpc>>

\* the variables of collections shared between threads
cvars == <<heap, th, assert_failed>>

\* the variables of the collections a connection shares with other consumers
kvars == <<hdr_addr, retained>>

vars == <<rvars, client, hvars, cvars, kvars>>

-----------------------------------------------------------------------------
(* Bounds of the model *)

\* most header entries the tokenizer inserts into one request
MaxHeaders == 3

\* most requests processed on one connection
MaxRequests == 2

\* most threads that hold references, and most collections they allocate
MaxHolders == 3

\* width of off_t in bits (the build has 64; the saturation logic is the same)
OffTBits == 8

-----------------------------------------------------------------------------
(* Characters and C strings *)

UpperAlpha == <<"A","B","C","D","E","F","G","H","I","J","K","L","M",
                "N","O","P","Q","R","S","T","U","V","W","X","Y","Z">>

LowerAlpha == <<"a","b","c","d","e","f","g","h","i","j","k","l","m",
                "n","o","p","q","r","s","t","u","v","w","x","y","z">>

Digits == <<"0","1","2","3","4","5","6","7","8","9">>

\* the bytes that occur in the model's strings; NUL ends a C string
NUL == "NUL"

Chars ==
    {UpperAlpha[i] : i \in 1..26} \cup {LowerAlpha[i] : i \in 1..26}
        \cup {Digits[i] : i \in 1..10}
        \cup {":", " ", "-", "+", ",", ".", "!", "/", "*", NUL}

LowerTable ==
    [c \in Chars |->
        IF \E i \in 1..26 : UpperAlpha[i] = c
        THEN LowerAlpha[CHOOSE i \in 1..26 : UpperAlpha[i] = c]
        ELSE c]

g_ascii_tolower(c) == LowerTable[c]

DigitTable == [c \in {Digits[i] : i \in 1..10} |-> (CHOOSE i \in 1..10 : Digits[i] = c) - 1]

IsDigit(c) == c \in DOMAIN DigitTable

DigitVal(c) == DigitTable[c]

IsSpace(c) == c = " "

\* the tail of a C string from 1-based position i on
StrFrom(s, i) == SubSeq(s, i, Len(s))

\* the byte at 1-based position i of a C string; past its end the terminator
CharAt(s, i) == IF i <= Len(s) THEN s[i] ELSE NUL

\* 0 == g_ascii_strncasecmp(a, b, n)
g_ascii_strncasecmp_eq(a, b, n) ==
    \A i \in 1..n : g_ascii_tolower(CharAt(a, i)) = g_ascii_tolower(CharAt(b, i))

\* 0 == g_ascii_strcasecmp(a, b), also strcasecmp in the C locale
case_insensitive_eq(a, b) ==
    /\ Len(a) = Len(b)
    /\ \A i \in 1..Len(a) : g_ascii_tolower(a[i]) = g_ascii_tolower(b[i])

-----------------------------------------------------------------------------
(* Program constants *)

HTTP_VERSION_UNSET == "UNSET"
HTTP_VERSION_1_0 == "1.0"
HTTP_VERSION_1_1 == "1.1"

HTTP_METHOD_UNSET == "UNSET"
HTTP_METHOD_GET == "GET"
HTTP_METHOD_HEAD == "HEAD"
HTTP_METHOD_POST == "POST"
HTTP_METHOD_OPTIONS == "OPTIONS"

STR_OFF_T_MAX == 2^(OffTBits - 1) - 1
STR_OFF_T_MIN == 0 - 2^(OffTBits - 1)

ENONE == "0"
ERANGE == "ERANGE"

\* the literals the validator searches for
STR_host == <<"h","o","s","t">>
STR_connection == <<"c","o","n","n","e","c","t","i","o","n">>
STR_content_length == <<"c","o","n","t","e","n","t","-","l","e","n","g","t","h">>
STR_expect == <<"e","x","p","e","c","t">>
STR_keep_alive == <<"k","e","e","p","-","a","l","i","v","e">>
STR_close == <<"c","l","o","s","e">>
STR_100_continue == <<"1","0","0","-","c","o","n","t","i","n","u","e">>

-----------------------------------------------------------------------------
(* http_headers.c *)

_http_header_new(key, val) ==
    [keylen |-> Len(key), data |-> key \o <<":", " ">> \o val]

\* HEADER_VALUE(h), HEADER_VALUE_LEN(h): the bytes after "key: "
HEADER_VALUE(h) == StrFrom(h.data, h.keylen + 3)

http_headers_new == [refcount |-> 1, entries |-> <<>>]

http_headers_reset(headers) == [headers EXCEPT !.entries = <<>>]

\* a try_reset that hands back the collection it was given when others hold it
http_headers_try_reset_shared(headers) ==
    IF headers.refcount - 1 = 0
    THEN [http_headers_reset(headers) EXCEPT !.refcount = 1]
    ELSE headers

\* the collection the caller holds afterwards
http_headers_try_reset(headers) ==
    IF headers.refcount - 1 = 0
    THEN [http_headers_reset(headers) EXCEPT !.refcount = 1]
    ELSE http_headers_new

\* what http_headers_try_reset leaves of the collection it was given: the
\* caller's reference is gone, line 60
http_headers_try_reset_left(headers) == [headers EXCEPT !.refcount = @ - 1]

\* whether http_headers_try_reset returns the object it was given
http_headers_try_reset_same(headers) == headers.refcount - 1 = 0

http_header_insert(headers, key, val) ==
    [headers EXCEPT !.entries = Append(@, _http_header_new(key, val))]

\* g_atomic_int_get, g_atomic_int_inc
g_atomic_int_get(refcount) == refcount

\* an increment that is lost
g_atomic_int_inc_lost(refcount) == refcount

g_atomic_int_inc(refcount) == refcount + 1

\* a decrement that reports zero one reference too early
g_atomic_int_dec_and_test_early(refcount) ==
    [refcount |-> refcount - 1, zero |-> refcount - 1 <= 1]

\* g_atomic_int_dec_and_test: the new value and whether it is zero
g_atomic_int_dec_and_test(refcount) ==
    [refcount |-> refcount - 1, zero |-> refcount - 1 = 0]

\* a heap cell: never allocated, a live collection, or one given back by
\* http_headers_free
Unallocated == [state |-> "unallocated", headers |-> [refcount |-> 0, entries |-> <<>>]]

Allocated(headers) == [state |-> "live", headers |-> headers]

http_headers_free(cell) ==
    [state |-> "freed", headers |-> http_headers_reset(cell.headers)]

\* a comparison of the first keylen bytes alone
header_key_matches_prefix(h, key) ==
    g_ascii_strncasecmp_eq(key, h.data, Len(key))

header_key_matches(h, key) ==
    /\ h.keylen = Len(key)
    /\ g_ascii_strncasecmp_eq(key, h.data, Len(key))

\* the first index in from..Len(entries) whose entry matches, 0 when none
RECURSIVE scan_forward(_, _, _)
scan_forward(entries, key, from) ==
    IF from > Len(entries) THEN 0
    ELSE IF header_key_matches(entries[from], key) THEN from
    ELSE scan_forward(entries, key, from + 1)

RECURSIVE scan_backward(_, _, _)
scan_backward(entries, key, from) ==
    IF from < 1 THEN 0
    ELSE IF header_key_matches(entries[from], key) THEN from
    ELSE scan_backward(entries, key, from - 1)

http_header_find_first(headers, key) == scan_forward(headers.entries, key, 1)

http_header_find_next(headers, l, key) == scan_forward(headers.entries, key, l + 1)

http_header_find_last(headers, key) ==
    scan_backward(headers.entries, key, Len(headers.entries))

\* a lookup that returns the first occurrence
http_header_lookup_first(headers, key) == http_header_find_first(headers, key)

\* the entry index of the last occurrence, 0 for NULL
http_header_lookup(headers, key) == http_header_find_last(headers, key)

RECURSIVE header_is_from(_, _, _, _)
header_is_from(headers, l, key, val) ==
    IF l = 0 THEN FALSE
    ELSE LET h == headers.entries[l]
         IN  IF Len(h.data) - (h.keylen + 2) # Len(val)
             THEN header_is_from(headers, http_header_find_next(headers, l, key), key, val)
             ELSE IF case_insensitive_eq(HEADER_VALUE(h), val) THEN TRUE
             ELSE header_is_from(headers, http_header_find_next(headers, l, key), key, val)

http_header_is(headers, key, val) ==
    header_is_from(headers, http_header_find_first(headers, key), key, val)

\* the cursors a caller visits with find_first and then find_next until NULL
RECURSIVE find_all_from(_, _, _)
find_all_from(headers, l, key) ==
    IF l = 0 THEN <<>>
    ELSE <<l>> \o find_all_from(headers, http_header_find_next(headers, l, key), key)

\* lines 116 and 131 take the cursor l itself for the http_header, so the
\* GString they write to is whatever lies in the list link: a NULL, which
\* g_string_* refuses unless its checks are compiled out, or a pointer to
\* another link or to the entry, whose bytes are then taken for a GString
MiscastWrites == {"segv", "refused", "wild"}

\* the write through the miscast cursor: no outcome reaches the entry's data
miscast_write(headers, l, ub) ==
    [headers |-> headers, segv |-> ub = "segv", wild |-> ub = "wild"]

http_header_append(headers, key, val, ub) ==
    LET l == http_header_find_last(headers, key)
    IN  IF l = 0
        THEN [headers |-> http_header_insert(headers, key, val),
              segv |-> FALSE, wild |-> FALSE]
        ELSE miscast_write(headers, l, ub)

http_header_overwrite(headers, key, val, ub) ==
    LET l == http_header_find_last(headers, key)
    IN  IF l = 0
        THEN [headers |-> http_header_insert(headers, key, val),
              segv |-> FALSE, wild |-> FALSE]
        ELSE miscast_write(headers, l, ub)

\* Inside http_header_remove a link is named by the position it had when the
\* call began; st.links are the links still in the queue, st.freed the
\* entries given to _http_header_free, st.stale whether a deleted link was
\* read.
LinkPos(links, id) ==
    IF \E p \in 1..Len(links) : links[p] = id
    THEN CHOOSE p \in 1..Len(links) : links[p] = id
    ELSE 0

\* the first link at queue position from or later whose entry matches
RECURSIVE scan_links(_, _, _, _)
scan_links(es, links, key, from) ==
    IF from > Len(links) THEN 0
    ELSE IF header_key_matches(es[links[from]], key) THEN links[from]
    ELSE scan_links(es, links, key, from + 1)

http_header_remove_link(st, l) ==
    [st EXCEPT !.links = SelectSeq(@, LAMBDA id : id # l),
               !.freed = Append(@, l),
               !.stale = @ \/ LinkPos(st.links, l) = 0]

\* l = http_header_find_next(l, ...) of the loop header: it reads l->next
remove_advance(es, key, st) ==
    IF LinkPos(st.links, st.l) = 0
    THEN [st EXCEPT !.stale = TRUE, !.l = 0]
    ELSE [st EXCEPT !.l = scan_links(es, st.links, key, LinkPos(st.links, st.l) + 1)]

\* a body that deletes the match it stands on
remove_body_eager(st) ==
    [http_header_remove_link(st, st.l) EXCEPT !.res = TRUE]

\* the loop body: delete the match before this one, remember this one
remove_body(st) ==
    IF st.lp # 0
    THEN [http_header_remove_link(st, st.lp) EXCEPT !.res = TRUE, !.lp = st.l]
    ELSE [st EXCEPT !.lp = st.l]

RECURSIVE remove_loop(_, _, _)
remove_loop(es, key, st) ==
    IF st.l = 0
    THEN IF st.lp # 0
         THEN [http_header_remove_link(st, st.lp) EXCEPT !.res = TRUE]
         ELSE st
    ELSE remove_loop(es, key, remove_advance(es, key, remove_body(st)))

http_header_remove(headers, key) ==
    LET es == headers.entries
        ids == [p \in 1..Len(es) |-> p]
        st == [links |-> ids, l |-> scan_links(es, ids, key, 1), lp |-> 0,
               res |-> FALSE, freed |-> <<>>, stale |-> FALSE]
        end == remove_loop(es, key, st)
    IN  [headers |-> [headers EXCEPT !.entries = [p \in 1..Len(end.links) |-> es[end.links[p]]]],
         res |-> end.res, freed |-> end.freed, stale |-> end.stale]

g_string_truncate(str, len) == SubSeq(str, 1, len)

RECURSIVE get_fast_from(_, _, _, _)
get_fast_from(dest, headers, l, key) ==
    IF l = 0 THEN dest
    ELSE get_fast_from(
             (IF Len(dest) # 0 THEN dest \o <<",", " ">> ELSE dest)
                 \o HEADER_VALUE(headers.entries[l]),
             headers, http_header_find_next(headers, l, key), key)

http_header_get_fast(dest, headers, key) ==
    get_fast_from(g_string_truncate(dest, 0), headers,
                  http_header_find_first(headers, key), key)

-----------------------------------------------------------------------------
(* str_to_off_t is strtoll: leading white space, an optional sign, the     *)
(* longest run of digits; no digits leaves endptr at the start; a value    *)
(* out of range saturates and sets errno to ERANGE.                        *)

RECURSIVE skip_space(_, _)
skip_space(s, i) ==
    IF i <= Len(s) /\ IsSpace(s[i]) THEN skip_space(s, i + 1) ELSE i

RECURSIVE digits_end(_, _)
digits_end(s, i) ==
    IF i <= Len(s) /\ IsDigit(s[i]) THEN digits_end(s, i + 1) ELSE i

\* the magnitude of the digits s[i..j-1], capped just above the range
RECURSIVE magnitude(_, _, _, _)
magnitude(s, i, j, acc) ==
    IF i >= j THEN acc
    ELSE LET v == acc * 10 + DigitVal(s[i])
         IN  magnitude(s, i + 1, j, IF v > STR_OFF_T_MAX + 2 THEN STR_OFF_T_MAX + 2 ELSE v)

str_to_off_t(val, en) ==
    LET i0 == skip_space(val, 1)
        neg == i0 <= Len(val) /\ val[i0] = "-"
        i1 == IF i0 <= Len(val) /\ val[i0] \in {"-", "+"} THEN i0 + 1 ELSE i0
        i2 == digits_end(val, i1)
        mag == magnitude(val, i1, i2, 0)
    IN  IF i2 = i1
        THEN [r |-> 0, err |-> val, errno |-> en]
        ELSE IF neg /\ mag > STR_OFF_T_MAX + 1
        THEN [r |-> STR_OFF_T_MIN, err |-> StrFrom(val, i2), errno |-> ERANGE]
        ELSE IF ~neg /\ mag > STR_OFF_T_MAX
        THEN [r |-> STR_OFF_T_MAX, err |-> StrFrom(val, i2), errno |-> ERANGE]
        ELSE [r |-> IF neg THEN 0 - mag ELSE mag, err |-> StrFrom(val, i2), errno |-> en]

-----------------------------------------------------------------------------
(* Collaborators of the validator that live outside request.c *)

HostnameChars ==
    {UpperAlpha[i] : i \in 1..26} \cup {LowerAlpha[i] : i \in 1..26}
        \cup {Digits[i] : i \in 1..10} \cup {".", "-", ":"}

\* parse_hostname(&req->uri): the host of a well-formed authority
parse_hostname(uri) ==
    IF \A i \in 1..Len(uri.authority) : uri.authority[i] \in HostnameChars
    THEN [ok |-> TRUE, uri |-> [uri EXCEPT !.host = uri.authority]]
    ELSE [ok |-> FALSE, uri |-> uri]

\* parse_raw_url(&req->uri): the path of a well-formed raw URL
parse_raw_url(uri) ==
    IF \E i \in 1..Len(uri.raw) : IsSpace(uri.raw[i])
    THEN [ok |-> FALSE, uri |-> uri]
    ELSE [ok |-> TRUE, uri |-> [uri EXCEPT !.path = uri.raw]]

\* connection_handle_direct(con): the dispatcher sees the connection as it is
connection_handle_direct(s) ==
    [s EXCEPT !.direct_calls = @ + 1,
              !.direct_seen = [req |-> s.req, con |-> s.con, errno |-> s.errno,
                               checks |-> s.checks]]

-----------------------------------------------------------------------------
(* request.c *)

\* the request after request_init
request_init ==
    [http_method    |-> HTTP_METHOD_UNSET,
     http_version   |-> HTTP_VERSION_UNSET,
     uri            |-> [raw |-> <<>>, scheme |-> <<>>, authority |-> <<>>,
                         path |-> <<>>, query |-> <<>>, host |-> <<>>],
     headers        |-> http_headers_new,
     content_length |-> -1]

request_reset(r) ==
    [http_method    |-> HTTP_METHOD_UNSET,
     http_version   |-> HTTP_VERSION_UNSET,
     uri            |-> [raw |-> <<>>, scheme |-> <<>>, authority |-> <<>>,
                         path |-> <<>>, query |-> <<>>, host |-> <<>>],
     headers        |-> http_headers_try_reset(r.headers),
     content_length |-> -1]

bad_request(s, status) ==
    connection_handle_direct(
        [s EXCEPT !.con.keep_alive = FALSE,
                  !.con.response.http_status = status])

\* a bad_request with its return statement forgotten
Return_fall_through(s) == s

\* the return statement that follows a bad_request
Return(s) == [s EXCEPT !.returned = TRUE]

\* a statement is reached only while the function has neither returned nor
\* faulted
Running(s) == ~s.returned /\ ~s.crashed

\* entering one of the checks of request_validate_header
Enter(s, check) == [s EXCEPT !.checks = Append(@, check)]

request_parse_url(s) ==
    LET uri0 == [s.req.uri EXCEPT !.query = <<>>, !.path = <<>>]
        p == parse_raw_url(uri0)
    IN  IF ~p.ok
        THEN [ok |-> FALSE, s |-> [s EXCEPT !.req.uri = p.uri]]
        ELSE IF p.uri.path = <<"*">> /\ s.req.http_method # HTTP_METHOD_OPTIONS
        THEN [ok |-> FALSE, s |-> [s EXCEPT !.req.uri = p.uri]]
        ELSE [ok |-> TRUE, s |-> [s EXCEPT !.req.uri = p.uri]]

\* lines 94-106
validate_version(s0) ==
    IF ~Running(s0) THEN s0 ELSE
    LET s == Enter(s0, "version")
        v == s.req.http_version
    IN  IF v = HTTP_VERSION_1_0
        THEN IF ~http_header_is(s.req.headers, STR_connection, STR_keep_alive)
             THEN [s EXCEPT !.con.keep_alive = FALSE]
             ELSE s
        ELSE IF v = HTTP_VERSION_1_1
        THEN IF http_header_is(s.req.headers, STR_connection, STR_close)
             THEN [s EXCEPT !.con.keep_alive = FALSE]
             ELSE s
        ELSE Return(bad_request(s, 505))

\* lines 108-111
validate_uri(s0) ==
    IF ~Running(s0) THEN s0 ELSE
    LET s == Enter(s0, "uri")
    IN  IF Len(s.req.uri.raw) = 0 THEN Return(bad_request(s, 400)) ELSE s

\* lines 120-125, hh holding the bytes val
host_from_header(s, val) ==
    LET uri1 == [s.req.uri EXCEPT !.authority = @ \o val]
        p == parse_hostname(uri1)
    IN  IF ~p.ok
        THEN Return(bad_request([s EXCEPT !.req.uri = p.uri], 400))
        ELSE [s EXCEPT !.req.uri = p.uri]

\* the first Host entry taken without looking for a second one
validate_host_first_only(s0, ub) ==
    IF ~Running(s0) THEN s0 ELSE
    LET s == Enter(s0, "host")
        l == http_header_find_first(s.req.headers, STR_host)
    IN  IF l = 0
        THEN IF ub.segv
             THEN [s EXCEPT !.null_read = TRUE, !.crashed = TRUE]
             ELSE host_from_header([s EXCEPT !.null_read = TRUE], ub.value)
        ELSE host_from_header(s, HEADER_VALUE(s.req.headers.entries[l]))

\* lines 113-126; with no Host entry l is NULL and line 120 reads through it:
\* ub is what that read does, a fault or some bytes
validate_host(s0, ub) ==
    IF ~Running(s0) THEN s0 ELSE
    LET s == Enter(s0, "host")
        l == http_header_find_first(s.req.headers, STR_host)
    IN  IF l # 0 /\ http_header_find_next(s.req.headers, l, STR_host) # 0
        THEN Return(bad_request(s, 400))
        ELSE IF l = 0
        THEN IF ub.segv
             THEN [s EXCEPT !.null_read = TRUE, !.crashed = TRUE]
             ELSE host_from_header([s EXCEPT !.null_read = TRUE], ub.value)
        ELSE host_from_header(s, HEADER_VALUE(s.req.headers.entries[l]))

\* lines 128-132
validate_host_required(s0) ==
    IF ~Running(s0) THEN s0 ELSE
    LET s == Enter(s0, "host_required")
    IN  IF Len(s.req.uri.host) = 0 /\ s.req.http_version = HTTP_VERSION_1_1
        THEN Return(bad_request(s, 400))
        ELSE s

\* lines 134-138
validate_url(s0) ==
    IF ~Running(s0) THEN s0 ELSE
    LET s == Enter(s0, "url")
        p == request_parse_url(s)
    IN  IF ~p.ok THEN Return(bad_request(p.s, 400)) ELSE p.s

\* lines 140-175
validate_content_length(s0) ==
    IF ~Running(s0) THEN s0 ELSE
    LET s == Enter(s0, "content_length")
        hh == http_header_lookup(s.req.headers, STR_content_length)
    IN  IF hh = 0 THEN s
        ELSE LET val == HEADER_VALUE(s.req.headers.entries[hh])
                 c == str_to_off_t(val, s.errno)
                 s1 == [s EXCEPT !.errno = c.errno]
             IN  IF CharAt(c.err, 1) # NUL
                 THEN Return(bad_request(s1, 400))
                 ELSE IF c.r < 0
                 THEN Return(bad_request(s1, 400))
                 ELSE IF (c.r = STR_OFF_T_MIN \/ c.r = STR_OFF_T_MAX) /\ s1.errno = ERANGE
                 THEN Return(bad_request(s1, 413))
                 ELSE [s1 EXCEPT !.req.content_length = c.r]

\* the loop of lines 182-191 from cursor l on: whether it left through the
\* bad_request of line 188, and expect_100_cont after it
RECURSIVE expect_loop(_, _, _)
expect_loop(headers, l, expect_100_cont) ==
    IF l = 0 THEN [failed |-> FALSE, expect_100_cont |-> expect_100_cont]
    ELSE IF case_insensitive_eq(HEADER_VALUE(headers.entries[l]), STR_100_continue)
    THEN expect_loop(headers, http_header_find_next(headers, l, STR_expect), TRUE)
    ELSE [failed |-> TRUE, expect_100_cont |-> expect_100_cont]

\* the Expect check without the HTTP/1.0 rule of lines 193-197
validate_expect_any_version(s0) ==
    IF ~Running(s0) THEN s0 ELSE
    LET s == Enter(s0, "expect")
        l == http_header_find_first(s.req.headers, STR_expect)
    IN  IF l = 0 THEN s
        ELSE LET e == expect_loop(s.req.headers, l, FALSE)
             IN  IF e.failed
                 THEN Return(bad_request(s, 417))
                 ELSE [s EXCEPT !.con.expect_100_cont = e.expect_100_cont]

\* lines 177-199
validate_expect(s0) ==
    IF ~Running(s0) THEN s0 ELSE
    LET s == Enter(s0, "expect")
        l == http_header_find_first(s.req.headers, STR_expect)
    IN  IF l = 0 THEN s
        ELSE LET e == expect_loop(s.req.headers, l, FALSE)
             IN  IF e.failed
                 THEN Return(bad_request(s, 417))
                 ELSE IF e.expect_100_cont /\ s.req.http_version = HTTP_VERSION_1_0
                 THEN Return(bad_request(s, 417))
                 ELSE [s EXCEPT !.con.expect_100_cont = e.expect_100_cont]

\* the method policy without the assignment of line 217
validate_method_keeps_sentinel(s0) ==
    IF ~Running(s0) THEN s0 ELSE
    LET s == Enter(s0, "method")
        m == s.req.http_method
    IN  IF m \in {HTTP_METHOD_GET, HTTP_METHOD_HEAD}
        THEN IF s.req.content_length > 0
             THEN Return(bad_request(s, 400))
             ELSE s
        ELSE IF m = HTTP_METHOD_POST
        THEN IF s.req.content_length = -1
             THEN Return(bad_request(s, 411))
             ELSE s
        ELSE s

\* the method policy with POST asking for a positive length
validate_method_post_positive(s0) ==
    IF ~Running(s0) THEN s0 ELSE
    LET s == Enter(s0, "method")
        m == s.req.http_method
    IN  IF m \in {HTTP_METHOD_GET, HTTP_METHOD_HEAD}
        THEN IF s.req.content_length > 0
             THEN Return(bad_request(s, 400))
             ELSE [s EXCEPT !.req.content_length = 0]
        ELSE IF m = HTTP_METHOD_POST
        THEN IF s.req.content_length <= 0
             THEN Return(bad_request(s, 411))
             ELSE s
        ELSE s

\* lines 207-232
validate_method(s0) ==
    IF ~Running(s0) THEN s0 ELSE
    LET s == Enter(s0, "method")
        m == s.req.http_method
    IN  IF m \in {HTTP_METHOD_GET, HTTP_METHOD_HEAD}
        THEN IF s.req.content_length > 0
             THEN Return(bad_request(s, 400))
             ELSE [s EXCEPT !.req.content_length = 0]
        ELSE IF m = HTTP_METHOD_POST
        THEN IF s.req.content_length = -1
             THEN Return(bad_request(s, 411))
             ELSE s
        ELSE s

request_validate_header(s, ub) ==
    validate_method(
      validate_expect(
        validate_content_length(
          validate_url(
            validate_host_required(
              validate_host(
                validate_uri(
                  validate_version(s)), ub))))))

-----------------------------------------------------------------------------
(* What the tokenizer delivers *)

Methods == {HTTP_METHOD_GET, HTTP_METHOD_HEAD, HTTP_METHOD_POST, HTTP_METHOD_OPTIONS}

Versions == {HTTP_VERSION_1_0, HTTP_VERSION_1_1, HTTP_VERSION_UNSET}

RawUris == {<<>>, <<"/">>, <<"*">>}

NAME_Host == <<"H","o","s","t">>
NAME_Connection == <<"C","o","n","n","e","c","t","i","o","n">>
NAME_Content_Length == <<"C","o","n","t","e","n","t","-","L","e","n","g","t","h">>
NAME_Expect == <<"E","x","p","e","c","t">>

NAME_X == <<"X">>
NAME_Y == <<"Y">>
NAME_ho == <<"h","o">>
NAME_hostx == <<"h","o","s","t","x">>

V_a == <<"a">>
V_b == <<"b">>
V_bang == <<"!">>
V_Close == <<"C","l","o","s","e">>
V_keep_alive == <<"k","e","e","p","-","a","l","i","v","e">>
V_TE_close == <<"T","E",","," ","c","l","o","s","e">>
V_empty == <<>>
V_0 == <<"0">>
V_5 == <<"5">>
V_x == <<"x">>
V_minus_1 == <<"-","1">>
V_999 == <<"9","9","9">>
V_minus_999 == <<"-","9","9","9">>
V_100_Continue == <<"1","0","0","-","C","o","n","t","i","n","u","e">>
V_gzip == <<"g","z","i","p">>

\* peers that exercise the Host and Connection handling
LinesHost ==
    {<<NAME_Host, V_a>>, <<NAME_Host, V_b>>, <<NAME_Host, V_bang>>,
     <<NAME_Connection, V_Close>>, <<NAME_Connection, V_keep_alive>>,
     <<NAME_Connection, V_TE_close>>,
     <<NAME_Content_Length, V_5>>, <<NAME_Expect, V_gzip>>}

\* peers that exercise the Content-Length handling
LinesLength ==
    {<<NAME_Host, V_a>>,
     <<NAME_Content_Length, V_empty>>, <<NAME_Content_Length, V_0>>,
     <<NAME_Content_Length, V_5>>, <<NAME_Content_Length, V_x>>,
     <<NAME_Content_Length, V_minus_1>>, <<NAME_Content_Length, V_999>>,
     <<NAME_Content_Length, V_minus_999>>}

\* peers that exercise the Expect handling
LinesExpect ==
    {<<NAME_Host, V_a>>,
     <<NAME_Expect, V_100_Continue>>, <<NAME_Expect, V_gzip>>,
     <<NAME_Content_Length, V_5>>, <<NAME_Content_Length, V_x>>,
     <<NAME_Connection, V_keep_alive>>}

\* peers that send several requests over one connection
LinesKeepAlive ==
    {<<NAME_Host, V_a>>, <<NAME_Expect, V_100_Continue>>}

\* what the read through the NULL cursor of line 120 can do: fault, or yield
\* whatever bytes lie there
NullReads ==
    {[segv |-> TRUE, value |-> <<>>]}
        \cup [segv : {FALSE}, value : {<<>>, <<"a">>}]

\* users of a collection whose entries repeat a name
LinesDuplicates ==
    {<<NAME_X, V_a>>, <<NAME_X, V_b>>, <<NAME_X, V_empty>>, <<NAME_Y, V_a>>}

\* users of a collection whose names are prefixes of one another
LinesPrefixes ==
    {<<STR_host, V_a>>, <<NAME_Host, V_a>>, <<NAME_ho, V_a>>, <<NAME_hostx, V_a>>}

\* what the holders of a shared collection put into it
LinesShared == {<<NAME_X, V_a>>}

\* what the GString passed to http_header_get_fast holds before the call
DestBefore == {<<>>, <<"z">>}

Holders == 1..MaxHolders

Addrs == 1..MaxHolders

\* a thread between calls, holding the collection at address a (0: none)
Idle(a) == [obj |-> a, pc |-> "idle"]

NoCall == [op |-> "none", key |-> <<>>, val |-> <<>>, before |-> <<>>, ret |-> FALSE]

NoDispatch == [req |-> request_init,
               con |-> [keep_alive |-> FALSE, expect_100_cont |-> FALSE,
                        response |-> [http_status |-> 0]],
               errno |-> ENONE, checks |-> <<>>]

-----------------------------------------------------------------------------
(* The connection *)

InitConnection ==
    /\ req = request_init
    /\ con = [keep_alive |-> TRUE, expect_100_cont |-> FALSE,
              response |-> [http_status |-> 0]]
    /\ errno = ENONE
    /\ pc = "line"
    /\ direct_calls = 0
    /\ direct_seen = NoDispatch
    /\ checks = <<>>
    /\ null_read = FALSE
    /\ nreq = 1
    /\ hdr_addr = 1
    /\ retained = <<>>

\* no collection is in use outside the request
InitNoCollection ==
    /\ hdrs = http_headers_new
    /\ call = NoCall
    /\ hpc = "unused"

\* no collection is shared between threads
InitNoHolders ==
    /\ heap = [a \in Addrs |-> Unallocated]
    /\ th = [t \in Holders |-> Idle(0)]
    /\ assert_failed = FALSE

Init ==
    /\ InitConnection
    /\ InitNoCollection
    /\ InitNoHolders
    /\ client \in {LinesHost, LinesLength, LinesExpect}

InitKeepAlive ==
    /\ InitConnection
    /\ InitNoCollection
    /\ InitNoHolders
    /\ client = LinesKeepAlive

\* a fresh collection and the lines its user works with
InitHeaders ==
    /\ InitConnection
    /\ hdrs = http_headers_new
    /\ call = NoCall
    /\ hpc = "ready"
    /\ client \in {LinesDuplicates, LinesPrefixes}
    /\ InitNoHolders

\* a collection fresh from http_headers_new, held by the thread that made it
InitRefcount ==
    /\ InitConnection
    /\ InitNoCollection
    /\ client = LinesShared
    /\ heap = [a \in Addrs |-> IF a = 1 THEN Allocated(http_headers_new) ELSE Unallocated]
    /\ th = [t \in Holders |-> IF t = 1 THEN Idle(1) ELSE Idle(0)]
    /\ assert_failed = FALSE

\* the tokenizer has read the request line
ParseRequestLine ==
    /\ pc = "line"
    /\ \E m \in Methods, v \in Versions, raw \in RawUris :
           req' = [req EXCEPT !.http_method = m, !.http_version = v, !.uri.raw = raw]
    /\ pc' = "headers"
    /\ UNCHANGED <<con, errno, direct_calls, direct_seen, checks, null_read, nreq, client, kvars, hvars, cvars>>

\* the tokenizer has read one header line
ParseHeaderLine ==
    /\ pc = "headers"
    /\ Len(req.headers.entries) < MaxHeaders
    /\ \E kv \in client :
           req' = [req EXCEPT !.headers = http_header_insert(@, kv[1], kv[2])]
    /\ UNCHANGED <<con, errno, pc, direct_calls, direct_seen, checks, null_read, nreq, client, kvars, hvars, cvars>>

\* the header block is complete; the read through NULL happens only when the
\* request has no Host entry, and otherwise its outcome is immaterial
RequestValidateHeader ==
    /\ pc = "headers"
    /\ \E ub \in IF http_header_find_first(req.headers, STR_host) = 0
                 THEN NullReads ELSE {[segv |-> TRUE, value |-> <<>>]} :
           LET s0 == [req |-> req, con |-> con, errno |-> errno,
                      direct_calls |-> 0, direct_seen |-> NoDispatch,
                      checks |-> <<>>, null_read |-> null_read,
                      returned |-> FALSE, crashed |-> FALSE]
               s == request_validate_header(s0, ub)
           IN  /\ req' = s.req
               /\ con' = s.con
               /\ errno' = s.errno
               /\ direct_calls' = s.direct_calls
               /\ direct_seen' = s.direct_seen
               /\ checks' = s.checks
               /\ null_read' = s.null_read
               /\ pc' = IF s.crashed THEN "crashed"
                        ELSE IF s.returned THEN "rejected" ELSE "accepted"
    /\ UNCHANGED <<nreq, client, kvars, hvars, cvars>>

\* another consumer of the request (a backend, a log writer) takes a
\* reference to its headers, http_headers_acquire; the connection has one
\* such consumer
ConsumerAcquire ==
    /\ pc = "accepted"
    /\ req.headers.refcount = 1
    /\ retained = <<>>
    /\ req' = [req EXCEPT !.headers.refcount = @ + 1]
    /\ UNCHANGED <<con, errno, pc, direct_calls, direct_seen, checks, null_read, nreq,
                   client, kvars, hvars, cvars>>

\* the response is out and the connection is kept for the next request; a
\* collection that others still hold stays with them, and the request gets
\* one from http_headers_new at a new address
RequestReset ==
    /\ pc = "accepted"
    /\ nreq < MaxRequests
    /\ req' = request_reset(req)
    /\ IF http_headers_try_reset_same(req.headers)
       THEN UNCHANGED <<hdr_addr, retained>>
       ELSE /\ hdr_addr' = hdr_addr + 1
            /\ retained' = Append(retained,
                                  [addr |-> hdr_addr,
                                   headers |-> http_headers_try_reset_left(req.headers)])
    /\ pc' = "line"
    /\ nreq' = nreq + 1
    /\ UNCHANGED <<con, errno, direct_calls, direct_seen, checks, null_read, client, hvars, cvars>>

-----------------------------------------------------------------------------
(* A collection used on its own *)

HeaderKeys == {kv[1] : kv \in client}

HeaderValues == {kv[2] : kv \in client}

Called(op, key, val, ret) ==
    call' = [op |-> op, key |-> key, val |-> val, before |-> hdrs.entries, ret |-> ret]

HpcAfter(r) == IF r.segv THEN "segv" ELSE IF r.wild THEN "wild" ELSE "ready"

HeaderInsert ==
    /\ hpc = "ready"
    /\ Len(hdrs.entries) < MaxHeaders
    /\ \E kv \in client :
           /\ hdrs' = http_header_insert(hdrs, kv[1], kv[2])
           /\ Called("insert", kv[1], kv[2], TRUE)
    /\ UNCHANGED <<rvars, client, kvars, hpc, cvars>>

HeaderAppend ==
    /\ hpc = "ready"
    /\ \E key \in HeaderKeys, val \in HeaderValues :
           /\ http_header_find_last(hdrs, key) = 0 => Len(hdrs.entries) < MaxHeaders
           /\ \E ub \in MiscastWrites :
                  /\ hdrs' = http_header_append(hdrs, key, val, ub).headers
                  /\ hpc' = HpcAfter(http_header_append(hdrs, key, val, ub))
                  /\ Called("append", key, val, TRUE)
    /\ UNCHANGED <<rvars, client, kvars, cvars>>

HeaderOverwrite ==
    /\ hpc = "ready"
    /\ \E key \in HeaderKeys, val \in HeaderValues :
           /\ http_header_find_last(hdrs, key) = 0 => Len(hdrs.entries) < MaxHeaders
           /\ \E ub \in MiscastWrites :
                  /\ hdrs' = http_header_overwrite(hdrs, key, val, ub).headers
                  /\ hpc' = HpcAfter(http_header_overwrite(hdrs, key, val, ub))
                  /\ Called("overwrite", key, val, TRUE)
    /\ UNCHANGED <<rvars, client, kvars, cvars>>

HeaderRemove ==
    /\ hpc = "ready"
    /\ \E key \in HeaderKeys :
           /\ hdrs' = http_header_remove(hdrs, key).headers
           /\ Called("remove", key, <<>>,
                     [res |-> http_header_remove(hdrs, key).res,
                      freed |-> http_header_remove(hdrs, key).freed,
                      stale |-> http_header_remove(hdrs, key).stale])
    /\ UNCHANGED <<rvars, client, kvars, hpc, cvars>>

\* a caller walks the entries of a name, and looks the name up
HeaderFind ==
    /\ hpc = "ready"
    /\ \E key \in HeaderKeys :
           Called("find", key, <<>>,
                  [all |-> find_all_from(hdrs, http_header_find_first(hdrs, key), key),
                   last |-> http_header_find_last(hdrs, key),
                   lookup |-> http_header_lookup(hdrs, key)])
    /\ UNCHANGED <<rvars, client, kvars, hdrs, hpc, cvars>>

HeaderGetFast ==
    /\ hpc = "ready"
    /\ \E key \in HeaderKeys, dest \in DestBefore :
           Called("get_fast", key, dest, http_header_get_fast(dest, hdrs, key))
    /\ UNCHANGED <<rvars, client, kvars, hdrs, hpc, cvars>>

NextHeaders ==
    \/ HeaderInsert
    \/ HeaderAppend
    \/ HeaderOverwrite
    \/ HeaderRemove
    \/ HeaderFind
    \/ HeaderGetFast

-----------------------------------------------------------------------------
(* Collections shared between threads: every read or write of refcount is  *)
(* one step, as is the reset or the free of the entries                     *)

\* whether thread t owns one of the references counted in its collection
Owns(t) ==
    /\ th[t].obj # 0
    /\ th[t].pc \in {"idle", "acquire_inc", "release_dec", "try_reset_dec"}

Refcount(a) == heap[a].headers.refcount

SetRefcount(a, n) == [heap EXCEPT ![a].headers.refcount = n]

At(t, pc_now) == th[t].obj # 0 /\ th[t].pc = pc_now

Goto(t, pc_next) == th' = [th EXCEPT ![t].pc = pc_next]

\* the assert of lines 46, 52 and 59
AssertPositive(t) ==
    assert_failed' = (assert_failed \/ ~(g_atomic_int_get(Refcount(th[t].obj)) > 0))

\* a holder puts a header into a collection that is still empty
SharedInsert(t) ==
    /\ At(t, "idle")
    /\ heap[th[t].obj].headers.entries = <<>>
    /\ \E kv \in client :
           heap' = [heap EXCEPT ![th[t].obj].headers = http_header_insert(@, kv[1], kv[2])]
    /\ UNCHANGED <<rvars, client, kvars, hvars, th, assert_failed>>

\* a holder calls http_headers_acquire for a thread that holds nothing
AcquireAssert(t) ==
    /\ At(t, "idle")
    /\ \E u \in Holders : th[u] = Idle(0)
    /\ AssertPositive(t)
    /\ Goto(t, "acquire_inc")
    /\ UNCHANGED <<rvars, client, kvars, hvars, heap>>

\* the increment; the new reference goes to a thread that holds nothing
AcquireInc(t) ==
    /\ At(t, "acquire_inc")
    /\ \E u \in Holders :
           /\ th[u] = Idle(0)
           /\ \A v \in Holders : th[v] = Idle(0) => u <= v
           /\ th' = [th EXCEPT ![t].pc = "idle", ![u] = Idle(th[t].obj)]
    /\ heap' = SetRefcount(th[t].obj, g_atomic_int_inc(Refcount(th[t].obj)))
    /\ UNCHANGED <<rvars, client, kvars, hvars, assert_failed>>

\* a holder calls http_headers_release
ReleaseAssert(t) ==
    /\ At(t, "idle")
    /\ AssertPositive(t)
    /\ Goto(t, "release_dec")
    /\ UNCHANGED <<rvars, client, kvars, hvars, heap>>

ReleaseDec(t) ==
    /\ At(t, "release_dec")
    /\ heap' = SetRefcount(th[t].obj, g_atomic_int_dec_and_test(Refcount(th[t].obj)).refcount)
    /\ th' = [th EXCEPT ![t] =
                 IF g_atomic_int_dec_and_test(Refcount(th[t].obj)).zero
                 THEN [@ EXCEPT !.pc = "release_free"]
                 ELSE Idle(0)]
    /\ UNCHANGED <<rvars, client, kvars, hvars, assert_failed>>

ReleaseFree(t) ==
    /\ At(t, "release_free")
    /\ heap' = [heap EXCEPT ![th[t].obj] = http_headers_free(@)]
    /\ th' = [th EXCEPT ![t] = Idle(0)]
    /\ UNCHANGED <<rvars, client, kvars, hvars, assert_failed>>

\* a holder calls http_headers_try_reset; http_headers_new of line 65 needs
\* memory
TryResetAssert(t) ==
    /\ At(t, "idle")
    /\ \E b \in Addrs : heap[b] = Unallocated
    /\ AssertPositive(t)
    /\ Goto(t, "try_reset_dec")
    /\ UNCHANGED <<rvars, client, kvars, hvars, heap>>

\* the decrement of line 60; when others still hold the collection the
\* caller leaves it and returns a new one
TryResetDec(t) ==
    /\ At(t, "try_reset_dec")
    /\ IF g_atomic_int_dec_and_test(Refcount(th[t].obj)).zero
       THEN /\ heap' = SetRefcount(th[t].obj, g_atomic_int_dec_and_test(Refcount(th[t].obj)).refcount)
            /\ Goto(t, "try_reset_reset")
       ELSE \E b \in Addrs :
                /\ heap[b] = Unallocated
                /\ \A c \in Addrs : heap[c] = Unallocated => b <= c
                /\ heap' = [SetRefcount(th[t].obj, g_atomic_int_dec_and_test(Refcount(th[t].obj)).refcount)
                                EXCEPT ![b] = Allocated(http_headers_new)]
                /\ th' = [th EXCEPT ![t] = Idle(b)]
    /\ UNCHANGED <<rvars, client, kvars, hvars, assert_failed>>

\* http_headers_reset of line 61
TryResetReset(t) ==
    /\ At(t, "try_reset_reset")
    /\ heap' = [heap EXCEPT ![th[t].obj].headers = http_headers_reset(@)]
    /\ Goto(t, "try_reset_store")
    /\ UNCHANGED <<rvars, client, kvars, hvars, assert_failed>>

\* headers->refcount = 1 of line 62, and the return
TryResetStore(t) ==
    /\ At(t, "try_reset_store")
    /\ heap' = SetRefcount(th[t].obj, 1)
    /\ th' = [th EXCEPT ![t] = Idle(th[t].obj)]
    /\ UNCHANGED <<rvars, client, kvars, hvars, assert_failed>>

NextRefcount ==
    \E t \in Holders :
        \/ SharedInsert(t)
        \/ AcquireAssert(t)
        \/ AcquireInc(t)
        \/ ReleaseAssert(t)
        \/ ReleaseDec(t)
        \/ ReleaseFree(t)
        \/ TryResetAssert(t)
        \/ TryResetDec(t)
        \/ TryResetReset(t)
        \/ TryResetStore(t)

Next ==
    \/ ParseRequestLine
    \/ ParseHeaderLine
    \/ RequestValidateHeader

NextKeepAlive ==
    \/ ParseRequestLine
    \/ ParseHeaderLine
    \/ RequestValidateHeader
    \/ ConsumerAcquire
    \/ RequestReset

\* one request on a connection
Spec == Init /\ [][Next]_vars

\* a sequence of requests on a connection
SpecKeepAlive == InitKeepAlive /\ [][NextKeepAlive]_vars

\* a sequence of calls on one collection
SpecHeaders == InitHeaders /\ [][NextHeaders]_vars

\* threads sharing collections by reference count
SpecRefcount == InitRefcount /\ [][NextRefcount]_vars

TypeOK ==
    /\ pc \in {"line", "headers", "accepted", "rejected", "crashed"}
    /\ req.content_length \in STR_OFF_T_MIN..STR_OFF_T_MAX
    /\ req.headers.refcount \in 1..MaxHolders
    /\ Len(req.headers.entries) <= MaxHeaders
    /\ con.keep_alive \in BOOLEAN
    /\ con.expect_100_cont \in BOOLEAN
    /\ con.response.http_status \in {0, 400, 411, 413, 417, 505}
    /\ errno \in {ENONE, ERANGE}
    /\ nreq \in 1..MaxRequests

-----------------------------------------------------------------------------
(* Vocabulary of the properties: the request as the peer sent it, read     *)
(* off the entries without the lookup functions of http_headers.c          *)

Finished == pc \in {"accepted", "rejected", "crashed"}

Entries == req.headers.entries

NameOf(h) == SubSeq(h.data, 1, h.keylen)

ValueOf(h) == SubSeq(h.data, h.keylen + 3, Len(h.data))

Lowered(s) == [i \in 1..Len(s) |-> LowerTable[s[i]]]

\* the positions of the entries called name, in the order they arrived
Occurrences(name) ==
    {i \in 1..Len(Entries) : Lowered(NameOf(Entries[i])) = Lowered(name)}

LastOccurrence(name) ==
    CHOOSE i \in Occurrences(name) : \A j \in Occurrences(name) : j <= i

VersionSet == req.http_version \in {HTTP_VERSION_1_0, HTTP_VERSION_1_1}

Entered(check) == \E i \in 1..Len(checks) : checks[i] = check

LastCheck == checks[Len(checks)]

Rejected(status) == pc = "rejected" /\ con.response.http_status = status

-----------------------------------------------------------------------------
\* C1: a request with a set version and a non-empty raw URI that carries two
\* or more Host entries is rejected with 400, whatever the Host values and
\* the other headers are.
C1_DuplicateHostRejected ==
    (Finished /\ VersionSet /\ req.uri.raw # <<>>
        /\ Cardinality(Occurrences(STR_host)) >= 2)
    => (Rejected(400) /\ LastCheck = "host")

\* a rejected request with two different Host values and a third header
C1_Witness ==
    /\ Rejected(400)
    /\ VersionSet
    /\ req.uri.raw # <<>>
    /\ Len(Entries) = 3
    /\ Cardinality(Occurrences(STR_host)) = 2
    /\ \E i, j \in Occurrences(STR_host) : ValueOf(Entries[i]) # ValueOf(Entries[j])

\* C2: with a set version, a non-empty raw URI and no Host entry, the
\* validator reads no entry for the authority, leaves authority and host
\* empty, rejects HTTP/1.1 with 400 and lets HTTP/1.0 go on to URL resolution.
C2_NoHostHandled ==
    (Finished /\ VersionSet /\ req.uri.raw # <<>> /\ Occurrences(STR_host) = {})
    => /\ pc # "crashed"
       /\ ~null_read
       /\ req.uri.authority = <<>>
       /\ req.uri.host = <<>>
       /\ req.http_version = HTTP_VERSION_1_1
            => (Rejected(400) /\ LastCheck = "host_required")
       /\ req.http_version = HTTP_VERSION_1_0 => Entered("url")

\* the status codes each check rejects with
StatusesOf(check) ==
    CASE check = "version" -> {505}
      [] check \in {"uri", "host", "host_required", "url"} -> {400}
      [] check = "content_length" -> {400, 413}
      [] check = "expect" -> {417}
      [] check = "method" -> {400, 411}

\* C3: a validation that rejects ends with keep_alive false and the status of
\* the failing check recorded, has called connection_handle_direct exactly
\* once, and has entered no check and changed nothing after that call; a
\* validation that accepts never calls it.
C3_RejectionIsTerminal ==
    /\ pc = "rejected"
        => /\ con.keep_alive = FALSE
           /\ con.response.http_status \in StatusesOf(LastCheck)
           /\ direct_calls = 1
           /\ direct_seen = [req |-> req, con |-> con, errno |-> errno, checks |-> checks]
    /\ pc = "accepted" => direct_calls = 0

\* a rejection by a check in the middle of the pipeline, on a connection whose
\* request asked to be kept alive
C3_Witness ==
    /\ Rejected(417)
    /\ direct_calls = 1
    /\ \E i \in Occurrences(STR_connection) :
           Lowered(ValueOf(Entries[i])) = STR_keep_alive

-----------------------------------------------------------------------------
(* Content-Length as the peer wrote it *)

HasContentLength == Occurrences(STR_content_length) # {}

\* the value of the Content-Length entry the validator decides on
SentLength == ValueOf(Entries[LastOccurrence(STR_content_length)])

Unsigned(v) == IF v # <<>> /\ v[1] = "-" THEN Tail(v) ELSE v

\* an optional minus sign and one or more decimal digits, nothing else
IsDecimal(v) ==
    /\ Unsigned(v) # <<>>
    /\ \A i \in 1..Len(Unsigned(v)) : IsDigit(Unsigned(v)[i])

RECURSIVE DigitsValue(_)
DigitsValue(d) ==
    IF d = <<>> THEN 0
    ELSE 10 * DigitsValue(SubSeq(d, 1, Len(d) - 1)) + DigitVal(d[Len(d)])

DecimalValue(v) ==
    IF v # <<>> /\ v[1] = "-" THEN 0 - DigitsValue(Unsigned(v)) ELSE DigitsValue(v)

\* content_length when the method policy starts: the sentinel, or the number sent
LengthBeforeMethod == IF HasContentLength THEN DecimalValue(SentLength) ELSE -1

\* C4: an accepted GET, HEAD or POST has a non-negative content_length: 0 for
\* GET and HEAD, the number of its Content-Length entry for POST.
C4_AcceptedLengthDefinite ==
    (pc = "accepted"
        /\ req.http_method \in {HTTP_METHOD_GET, HTTP_METHOD_HEAD, HTTP_METHOD_POST})
    => /\ req.content_length >= 0
       /\ req.content_length # -1
       /\ req.http_method \in {HTTP_METHOD_GET, HTTP_METHOD_HEAD}
            => req.content_length = 0
       /\ req.http_method = HTTP_METHOD_POST
            => (HasContentLength /\ req.content_length = DecimalValue(SentLength))

\* an accepted HEAD that sent no Content-Length, so that the sentinel had to go
C4_Witness ==
    /\ pc = "accepted"
    /\ ~null_read
    /\ req.http_method = HTTP_METHOD_HEAD
    /\ ~HasContentLength
    /\ req.content_length = 0

\* C5: past checks 1-5, a Content-Length whose conversion returns the minimum
\* or the maximum of the range with the range error signalled is rejected
\* with 413 and content_length is not updated.
C5_OutOfRangeIs413 ==
    (Finished /\ ~null_read /\ Entered("content_length") /\ HasContentLength
        /\ str_to_off_t(SentLength, ENONE).errno = ERANGE
        /\ str_to_off_t(SentLength, ENONE).r \in {STR_OFF_T_MIN, STR_OFF_T_MAX})
    => (Rejected(413) /\ req.content_length = -1)

\* C6: past checks 1-5, a Content-Length that is not a decimal number or is a
\* negative one is rejected with 400 and content_length keeps the sentinel; a
\* non-negative number in range is stored as content_length.
C6_LengthParsed ==
    (Finished /\ ~null_read /\ Entered("content_length") /\ HasContentLength)
    => /\ (~IsDecimal(SentLength) \/ DecimalValue(SentLength) < 0)
            => (Rejected(400) /\ LastCheck = "content_length"
                    /\ req.content_length = -1)
       /\ (IsDecimal(SentLength) /\ DecimalValue(SentLength) \in 0..STR_OFF_T_MAX)
            => (Entered("expect") /\ req.content_length = DecimalValue(SentLength))

-----------------------------------------------------------------------------
(* Expect as the peer wrote it *)

Is100Continue(i) == Lowered(ValueOf(Entries[i])) = STR_100_continue

\* C7: past checks 1-6, a request with Expect entries is rejected with 417 if
\* one of them is not 100-continue, whatever the version and the other
\* entries; rejected with 417 if all are 100-continue and the version is 1.0;
\* and otherwise passes with expect_100_cont set.
C7_ExpectNegotiation ==
    (Finished /\ Entered("expect") /\ Occurrences(STR_expect) # {})
    => /\ (\E i \in Occurrences(STR_expect) : ~Is100Continue(i))
            => (Rejected(417) /\ LastCheck = "expect")
       /\ ((\A i \in Occurrences(STR_expect) : Is100Continue(i))
                /\ req.http_version = HTTP_VERSION_1_0)
            => (Rejected(417) /\ LastCheck = "expect")
       /\ ((\A i \in Occurrences(STR_expect) : Is100Continue(i))
                /\ req.http_version = HTTP_VERSION_1_1)
            => (Entered("method") /\ con.expect_100_cont = TRUE)

\* an HTTP/1.0 request whose only fault is its Expect: 100-continue
C7_Witness ==
    /\ Rejected(417)
    /\ ~null_read
    /\ req.http_version = HTTP_VERSION_1_0
    /\ Occurrences(STR_expect) # {}
    /\ \A i \in Occurrences(STR_expect) : Is100Continue(i)

\* C8: on a connection that serves several requests, after every accepted
\* validation expect_100_cont is true exactly if the request just validated
\* carries Expect: 100-continue.
C8_ExpectFlagAuthoritative ==
    (pc = "accepted" /\ ~null_read)
    => (con.expect_100_cont <=> \E i \in Occurrences(STR_expect) : Is100Continue(i))

-----------------------------------------------------------------------------
\* C9: past checks 1-7: GET or HEAD with a positive length is rejected with
\* 400 and otherwise accepted with content_length 0; POST without a length is
\* rejected with 411 and otherwise accepted with the length sent, 0 included;
\* any other method is accepted with content_length as it was.
C9_MethodPolicy ==
    (Finished /\ Entered("method"))
    => /\ (req.http_method \in {HTTP_METHOD_GET, HTTP_METHOD_HEAD}
                /\ LengthBeforeMethod > 0)
            => (Rejected(400) /\ req.content_length = LengthBeforeMethod)
       /\ (req.http_method \in {HTTP_METHOD_GET, HTTP_METHOD_HEAD}
                /\ LengthBeforeMethod \in {-1, 0})
            => (pc = "accepted" /\ req.content_length = 0)
       /\ (req.http_method = HTTP_METHOD_POST /\ LengthBeforeMethod = -1)
            => Rejected(411)
       /\ (req.http_method = HTTP_METHOD_POST /\ LengthBeforeMethod >= 0)
            => (pc = "accepted" /\ req.content_length = LengthBeforeMethod)
       /\ req.http_method \notin {HTTP_METHOD_GET, HTTP_METHOD_HEAD, HTTP_METHOD_POST}
            => (pc = "accepted" /\ req.content_length = LengthBeforeMethod)

\* an accepted POST that sent Content-Length: 0
C9_Witness ==
    /\ pc = "accepted"
    /\ ~null_read
    /\ req.http_method = HTTP_METHOD_POST
    /\ HasContentLength
    /\ SentLength = V_0
    /\ req.content_length = 0

-----------------------------------------------------------------------------
(* Connection as the peer wrote it: a comma-separated list of tokens *)

\* v[i..j] is one whole element of the list v, white space aside
IsListElement(v, i, j) ==
    /\ \E k \in 0..(i-1) :
           /\ k = 0 \/ v[k] = ","
           /\ \A m \in (k+1)..(i-1) : IsSpace(v[m])
    /\ \E k \in (j+1)..(Len(v)+1) :
           /\ k = Len(v) + 1 \/ v[k] = ","
           /\ \A m \in (j+1)..(k-1) : IsSpace(v[m])

HasToken(v, token) ==
    \E i \in 1..Len(v), j \in 1..Len(v) :
        /\ i <= j
        /\ Lowered(SubSeq(v, i, j)) = token
        /\ IsListElement(v, i, j)

ConnectionHas(token) ==
    \E i \in Occurrences(STR_connection) : HasToken(ValueOf(Entries[i]), token)

\* C10: after an accepted validation keep_alive follows the version rules:
\* for 1.0 it is true only if a Connection entry lists keep-alive; for 1.1 it
\* is false whenever a Connection entry lists close, also as one token among
\* several, and otherwise stays at its default, true.
C10_KeepAliveNegotiated ==
    (pc = "accepted" /\ ~null_read)
    => /\ req.http_version = HTTP_VERSION_1_0
            => (con.keep_alive => ConnectionHas(STR_keep_alive))
       /\ req.http_version = HTTP_VERSION_1_1
            => (con.keep_alive <=> ~ConnectionHas(STR_close))

-----------------------------------------------------------------------------
(* Vocabulary of the properties of a collection used on its own: names    *)
(* and values read off the entries before and after the call               *)

\* the positions in es of the entries called name
MatchesIn(es, name) == {i \in 1..Len(es) : Lowered(NameOf(es[i])) = Lowered(name)}

\* the last of them
LastIn(es, name) == CHOOSE i \in MatchesIn(es, name) : \A j \in MatchesIn(es, name) : j <= i

\* the entry a tokenizer makes of name and value
EntryOf(name, value) == [keylen |-> Len(name), data |-> name \o <<":", " ">> \o value]

\* the values of the entries called name, in the order of the entries
RECURSIVE ValuesFrom(_, _, _)
ValuesFrom(es, name, i) ==
    IF i > Len(es) THEN <<>>
    ELSE IF i \in MatchesIn(es, name)
         THEN <<ValueOf(es[i])>> \o ValuesFrom(es, name, i + 1)
         ELSE ValuesFrom(es, name, i + 1)

\* values with ", " between each two neighbours
RECURSIVE CommaJoined(_)
CommaJoined(values) ==
    IF Len(values) = 0 THEN <<>>
    ELSE IF Len(values) = 1 THEN values[1]
    ELSE values[1] \o <<",", " ">> \o CommaJoined(Tail(values))

\* es without the entries called name
Without(es, name) == SelectSeq(es, LAMBDA h : Lowered(NameOf(h)) # Lowered(name))

\* es with the entry at position i replaced by h
Replaced(es, i, h) == [j \in 1..Len(es) |-> IF j = i THEN h ELSE es[j]]

\* C11: a call of http_header_append that the process survives leaves, when
\* entries of the name exist, the collection as it was except that the last
\* such entry has ", " and the value appended to its stored value, and
\* otherwise the collection with a new entry "name: value" at its end
C11_AppendJoinsValue ==
    (call.op = "append" /\ hpc = "ready") =>
        IF MatchesIn(call.before, call.key) = {}
        THEN hdrs.entries = Append(call.before, EntryOf(call.key, call.val))
        ELSE hdrs.entries =
                 Replaced(call.before, LastIn(call.before, call.key),
                          EntryOf(NameOf(call.before[LastIn(call.before, call.key)]),
                                  ValueOf(call.before[LastIn(call.before, call.key)])
                                      \o <<",", " ">> \o call.val))

\* C12: a call of http_header_overwrite that the process survives leaves,
\* when entries of the name exist, the collection as it was except that the
\* last such entry holds exactly "name: value", and otherwise the collection
\* with a new entry "name: value" at its end; in both cases the last entry of
\* the name then has the value
C12_OverwriteReplacesLast ==
    (call.op = "overwrite" /\ hpc = "ready") =>
        /\ IF MatchesIn(call.before, call.key) = {}
           THEN hdrs.entries = Append(call.before, EntryOf(call.key, call.val))
           ELSE hdrs.entries =
                    Replaced(call.before, LastIn(call.before, call.key),
                             EntryOf(call.key, call.val))
        /\ MatchesIn(hdrs.entries, call.key) # {}
        /\ ValueOf(hdrs.entries[LastIn(hdrs.entries, call.key)]) = call.val

\* C13: http_header_remove leaves exactly the entries of other names, in
\* their order, frees each entry of the name once, reads no link it has
\* deleted, and returns TRUE exactly when the name had an entry (so FALSE,
\* with nothing changed, when called again)
C13_RemoveDeletesAll ==
    call.op = "remove" =>
        /\ hdrs.entries = Without(call.before, call.key)
        /\ {call.ret.freed[i] : i \in 1..Len(call.ret.freed)} = MatchesIn(call.before, call.key)
        /\ Len(call.ret.freed) = Cardinality(MatchesIn(call.before, call.key))
        /\ ~call.ret.stale
        /\ call.ret.res = (MatchesIn(call.before, call.key) # {})

\* two entries of the name with another between them were removed
C13_Witness ==
    /\ call.op = "remove"
    /\ MatchesIn(call.before, call.key) = {1, 3}
    /\ Len(hdrs.entries) = 1
    /\ call.ret.res

\* the threads that own a reference to the collection at address a
OwnersOf(a) == {t \in Holders : Owns(t) /\ th[t].obj = a}

\* the threads that have given up the last reference and are clearing or
\* freeing the collection at address a
ClearersOf(a) ==
    {t \in Holders : th[t].obj = a
                     /\ th[t].pc \in {"release_free", "try_reset_reset", "try_reset_store"}}

\* C14: the decrement of http_headers_try_reset that finds refcount 1 keeps
\* the caller on the same collection, which it returns with no entries and
\* refcount 1; the one that finds more returns a collection that did not
\* exist before, empty and with refcount 1, and leaves the original with its
\* entries and a refcount one less
C14_TryResetReusesOrReplaces ==
    [][\A t \in Holders :
          /\ (th[t].pc = "try_reset_dec" /\ th'[t] # th[t]) =>
                 IF Refcount(th[t].obj) = 1
                 THEN th'[t] = [obj |-> th[t].obj, pc |-> "try_reset_reset"]
                 ELSE /\ th'[t].pc = "idle"
                      /\ th'[t].obj # th[t].obj
                      /\ heap[th'[t].obj].state = "unallocated"
                      /\ heap'[th'[t].obj] =
                             [state |-> "live", headers |-> [refcount |-> 1, entries |-> <<>>]]
                      /\ heap'[th[t].obj] =
                             [heap[th[t].obj] EXCEPT !.headers.refcount = @ - 1]
          /\ (th[t].pc = "try_reset_reset" /\ th'[t] # th[t]) =>
                 th'[t] = [obj |-> th[t].obj, pc |-> "try_reset_store"]
          /\ (th[t].pc = "try_reset_store" /\ th'[t] # th[t]) =>
                 /\ th'[t] = [obj |-> th[t].obj, pc |-> "idle"]
                 /\ heap'[th[t].obj] =
                        [state |-> "live", headers |-> [refcount |-> 1, entries |-> <<>>]]
      ]_vars

\* a caller got a new collection while the original, still filled, stays
\* with the other holder
C14_Witness ==
    /\ heap[1].state = "live"
    /\ Refcount(1) = 1
    /\ Len(heap[1].headers.entries) = 1
    /\ heap[2] = Allocated(http_headers_new)
    /\ \E t, u \in Holders : th[t] = Idle(1) /\ th[u] = Idle(2)

\* C15: find_first followed by find_next until NULL visits exactly the
\* entries whose name has the length of the key and equals it up to ASCII
\* case, each once and in insertion order; find_last and lookup give the
\* last of them, NULL when there is none
C15_FindVisitsMatches ==
    call.op = "find" =>
        /\ {call.ret.all[i] : i \in 1..Len(call.ret.all)} = MatchesIn(call.before, call.key)
        /\ \A i, j \in 1..Len(call.ret.all) : i < j => call.ret.all[i] < call.ret.all[j]
        /\ call.ret.last = (IF MatchesIn(call.before, call.key) = {} THEN 0
                            ELSE LastIn(call.before, call.key))
        /\ call.ret.lookup = call.ret.last

\* "host" finds host and Host around an entry called hostx
C15_Witness ==
    /\ call.op = "find"
    /\ call.key = STR_host
    /\ call.ret.all = <<1, 3>>
    /\ NameOf(call.before[2]) = NAME_hostx
    /\ NameOf(call.before[1]) # NameOf(call.before[3])

\* C16: http_header_get_fast leaves in dest the values of the entries of the
\* name in insertion order with ", " between each two neighbours, empty
\* values included, whatever dest held before, and leaves the collection as
\* it was
C16_GetFastJoinsAll ==
    call.op = "get_fast" =>
        /\ call.ret = CommaJoined(ValuesFrom(call.before, call.key, 1))
        /\ hdrs.entries = call.before

\* the checks of the validator in the order of the specification
CheckOrder ==
    <<"version", "uri", "host", "host_required", "url", "content_length", "expect", "method">>

\* whether the request as sent fails the check, each taken on its own
Fails(check) ==
    CASE check = "version" -> ~VersionSet
      [] check = "uri" -> req.uri.raw = <<>>
      [] check = "host" ->
             \/ Cardinality(Occurrences(STR_host)) >= 2
             \/ \E i \in Occurrences(STR_host) :
                    \E k \in 1..Len(ValueOf(Entries[i])) : ValueOf(Entries[i])[k] = "!"
      [] check = "host_required" ->
             req.http_version = HTTP_VERSION_1_1 /\ Occurrences(STR_host) = {}
      [] check = "url" ->
             \/ \E k \in 1..Len(req.uri.raw) : req.uri.raw[k] = " "
             \/ req.uri.raw = <<"*">> /\ req.http_method # HTTP_METHOD_OPTIONS
      [] check = "content_length" ->
             /\ HasContentLength
             /\ ~(/\ IsDecimal(SentLength)
                  /\ DecimalValue(SentLength) \in 0..STR_OFF_T_MAX)
      [] check = "expect" ->
             \E i \in Occurrences(STR_expect) :
                 ~Is100Continue(i) \/ req.http_version = HTTP_VERSION_1_0
      [] check = "method" ->
             \/ /\ req.http_method \in {HTTP_METHOD_GET, HTTP_METHOD_HEAD}
                /\ HasContentLength
                /\ IsDecimal(SentLength)
                /\ LengthBeforeMethod > 0
             \/ req.http_method = HTTP_METHOD_POST /\ ~HasContentLength

FailingChecks == {k \in 1..Len(CheckOrder) : Fails(CheckOrder[k])}

EarliestFailing == CHOOSE k \in FailingChecks : \A j \in FailingChecks : k <= j

\* C17: a validation enters the checks in the fixed order, each at most once,
\* and a request that fails one or more of them is rejected by the earliest
\* one it fails, with a status of that check: 505 for an unset version even
\* with an empty URI, 400 for an invalid Content-Length even with Expect:
\* gzip, 417 for Expect: gzip even on a POST without Content-Length
C17_EarliestFailureDecides ==
    Finished =>
        /\ Len(checks) <= Len(CheckOrder)
        /\ \A i \in 1..Len(checks) : checks[i] = CheckOrder[i]
        /\ FailingChecks # {} =>
               /\ pc = "rejected"
               /\ LastCheck = CheckOrder[EarliestFailing]
               /\ con.response.http_status \in StatusesOf(LastCheck)
        /\ (~VersionSet /\ req.uri.raw = <<>>) => Rejected(505)
        /\ FailingChecks = {6, 7} => Rejected(400)
        /\ FailingChecks = {7, 8} => Rejected(417)

\* C18: under every interleaving of acquire, release and try_reset no assert
\* fails, the refcount of a live collection is the number of references its
\* holders own, a collection is cleared or freed only by the one thread that
\* gave up its last reference, and no thread holds a collection that was
\* freed
C18_RefcountCountsHolders ==
    /\ ~assert_failed
    /\ \A a \in Addrs :
           /\ heap[a].state = "live" => Refcount(a) = Cardinality(OwnersOf(a))
           /\ heap[a].state # "live" => \A t \in Holders : th[t].obj # a
           /\ ClearersOf(a) # {} =>
                  /\ Cardinality(ClearersOf(a)) = 1
                  /\ OwnersOf(a) = {}
                  /\ \A t \in Holders : th[t].obj = a => t \in ClearersOf(a)

\* the first collection was shared, left by try_reset, and freed by its last
\* holder, and the collection try_reset returned is shared in turn
C18_Witness ==
    /\ heap[1].state = "freed"
    /\ heap[2].state = "live"
    /\ Refcount(2) = 2
    /\ Cardinality(OwnersOf(2)) = 2

-----------------------------------------------------------------------------
(* Several Content-Length entries *)

\* es without the entries at the positions in drop
RECURSIVE Dropped(_, _, _)
Dropped(es, drop, i) ==
    IF i > Len(es) THEN <<>>
    ELSE IF i \in drop THEN Dropped(es, drop, i + 1)
    ELSE <<es[i]>> \o Dropped(es, drop, i + 1)

\* the request as the tokenizer handed it over, without the Content-Length
\* entries before the last one
LastLengthOnly ==
    [req EXCEPT !.uri.authority = <<>>, !.uri.host = <<>>, !.uri.path = <<>>,
                !.content_length = -1,
                !.headers.entries =
                    Dropped(Entries,
                            Occurrences(STR_content_length)
                                \ {LastOccurrence(STR_content_length)}, 1)]

\* what the validator makes of a request on a fresh connection
ValidatedAlone(r) ==
    request_validate_header(
        [req |-> r,
         con |-> [keep_alive |-> TRUE, expect_100_cont |-> FALSE,
                  response |-> [http_status |-> 0]],
         errno |-> ENONE, direct_calls |-> 0, direct_seen |-> NoDispatch,
         checks |-> <<>>, null_read |-> FALSE, returned |-> FALSE, crashed |-> FALSE],
        [segv |-> TRUE, value |-> <<>>])

\* C20: a validation that reaches the Content-Length check of a request with
\* several Content-Length entries ends exactly as it does for the same
\* request with only the last of them: same checks entered, same status,
\* same content_length
C20_LastLengthDecides ==
    (Finished /\ ~null_read /\ Entered("content_length")
        /\ Cardinality(Occurrences(STR_content_length)) >= 2)
    => /\ ValidatedAlone(LastLengthOnly).checks = checks
       /\ ValidatedAlone(LastLengthOnly).returned = (pc = "rejected")
       /\ ValidatedAlone(LastLengthOnly).con = con
       /\ ValidatedAlone(LastLengthOnly).req.content_length = req.content_length

\* a POST accepted with the length of its last Content-Length entry, after
\* an entry that is no number
C20_Witness ==
    /\ pc = "accepted"
    /\ req.http_method = HTTP_METHOD_POST
    /\ Cardinality(Occurrences(STR_content_length)) = 2
    /\ \E i \in Occurrences(STR_content_length) : ValueOf(Entries[i]) = V_x
    /\ SentLength = V_5
    /\ req.content_length = 5

-----------------------------------------------------------------------------
\* C19: request_reset leaves the request with a collection of no entries and
\* refcount 1 and with content_length -1: the same object when the request
\* was its only holder, a new one when another consumer holds the old
\* collection, which then stays as it was but for the request's reference;
\* and what a consumer holds never changes afterwards
C19_ResetIsolatesRequests ==
    [][/\ nreq' = nreq + 1 =>
              /\ req'.headers = [refcount |-> 1, entries |-> <<>>]
              /\ req'.content_length = -1
              /\ IF req.headers.refcount = 1
                 THEN hdr_addr' = hdr_addr /\ retained' = retained
                 ELSE /\ hdr_addr' # hdr_addr
                      /\ \A i \in 1..Len(retained') : retained'[i].addr # hdr_addr'
                      /\ retained' =
                             Append(retained,
                                    [addr |-> hdr_addr,
                                     headers |-> [refcount |-> req.headers.refcount - 1,
                                                  entries |-> req.headers.entries]])
       /\ \A i \in 1..Len(retained) : retained'[i] = retained[i]
      ]_vars

\* the second request has been validated on a new collection while a
\* consumer holds the headers of the first
C19_Witness ==
    /\ nreq = 2
    /\ Finished
    /\ Len(retained) = 1
    /\ retained[1].addr # hdr_addr
    /\ retained[1].headers.entries # <<>>
    /\ retained[1].headers.entries # Entries

=============================================================================
